---- MODULE Spec2Model ----
(***************************************************************************)
(* NonLazyBrain (src/non_lazy_brain.py): a brain of stimuli, areas and     *)
(* output areas whose connectomes are fully generated when a population is *)
(* added, and the projection step project_into.                            *)
(*                                                                         *)
(* Python dicts are functions whose DOMAIN is the set of keys; numpy       *)
(* matrices are functions [0..rows-1 -> [0..cols-1 -> Int]]; neuron        *)
(* indices are 0-based as in the source.  Plasticity coefficients are      *)
(* drawn from integers, so that every weight w * (1 + beta) is computed    *)
(* exactly in Int.                                                         *)
(***************************************************************************)
EXTENDS Integers, Sequences, FiniteSets, TLC

VARIABLES
    stimuli,                     \* Brain.stimuli: name -> Stimulus
    areas,                       \* Brain.areas: name -> Area
    output_areas,                \* Brain.output_areas: name -> OutputArea
    stimuli_connectomes,         \* stimulus -> (target -> matrix)
    connectomes,                 \* area -> (area -> matrix)
    output_connectomes,          \* area -> (output area -> matrix)
    output_stimuli_connectomes,  \* stimulus -> (output area -> matrix)
    learning_mode,               \* Brain.learning_mode
    to_update,                   \* Brain.project: targets projected into, winners not yet updated
    steps,                       \* number of calls made so far that a bound limits
    returned,                    \* target -> sum of the values project_into returned for it
    call,                        \* the last operation: its name, arguments and result
    learning_model               \* LearningModel: _accuracy, and whether test_model completed

vars == <<stimuli, areas, output_areas, stimuli_connectomes, connectomes,
          output_connectomes, output_stimuli_connectomes, learning_mode,
          to_update, steps, returned, call, learning_model>>

---------------------------------------------------------------------------
(* Bounds of the model *)

MaxSteps == 2      \* project_into calls in one behaviour

StimNames == {"S"}
AreaNames == {"A", "B"}
OutputNames == {"O"}
StimKs == {1, 2}   \* neurons of a stimulus
Shapes == {<<3, 1>>, <<3, 2>>, <<2, 3>>}   \* <<n, k>> of an area (k > n is not rejected)
Betas == {1, 2}    \* plasticity coefficients of areas
Seeds == {1, 2, 3} \* states of the random generator at a creation call
BuiltSeeds == {1, 3}   \* the seeds of the brains that are projected into

MaxCalls == 3      \* creation calls in one behaviour when names may be reused
MaxNamed == 1      \* project_into calls in one behaviour when sources are named freely
MaxTests == 2      \* test_model calls in one behaviour
MaxRuns == 3       \* data points of a test set
Unknown == "X"     \* a name that no population is ever given
NamePool == {"A", "O"}   \* the names a caller may give to a population of any kind

---------------------------------------------------------------------------
(* Python containers *)

EmptyDict == << >>

Put(d, key, v) == [x \in (DOMAIN d) \cup {key} |-> IF x = key THEN v ELSE d[x]]

\* d[x] = f[x] for every x in DOMAIN f
PutAll(d, f) == [x \in (DOMAIN d) \cup (DOMAIN f) |-> IF x \in DOMAIN f THEN f[x] ELSE d[x]]

Row(d, key) == IF key \in DOMAIN d THEN d[key] ELSE EmptyDict

Put2(d, a, b, v) == Put(d, a, Put(Row(d, a), b, v))

Range(s) == {s[x] : x \in DOMAIN s}

\* sum(f[x] for x in S)
RECURSIVE SumOver(_, _)
SumOver(f, S) ==
    IF S = {} THEN 0
    ELSE LET x == CHOOSE y \in S : TRUE IN f[x] + SumOver(f, S \ {x})

RECURSIVE Pow(_, _)
Pow(x, e) == IF e = 0 THEN 1 ELSE x * Pow(x, e - 1)

Occurrences(s, x) == Cardinality({p \in DOMAIN s : s[p] = x})

---------------------------------------------------------------------------
(* numpy *)

zeros(rows, cols) == [j \in 0..(rows - 1) |-> [i \in 0..(cols - 1) |-> 0]]

ones(rows, cols) == [j \in 0..(rows - 1) |-> [i \in 0..(cols - 1) |-> 1]]

\* The position in the random stream at which the matrix source -> target is drawn.
NameIdx(name) ==
    CASE name = "S" -> 0 [] name = "A" -> 1 [] name = "B" -> 2 [] OTHER -> 3

StreamPos(source, target) == NameIdx(source) + 2 * NameIdx(target)

\* np.random.binomial(1, p, (rows, cols)): a 0/1 matrix fixed by the state of the
\* generator; seed 3 draws all ones, seeds 1 and 2 draw a stripe pattern.
binomial(seed, pos, rows, cols) ==
    [j \in 0..(rows - 1) |-> [i \in 0..(cols - 1) |->
        (seed \div Pow(2, (pos + j * cols + i) % 2)) % 2]]

IsMatrix(m, rows, cols) ==
    /\ DOMAIN m = 0..(rows - 1)
    /\ \A j \in DOMAIN m : DOMAIN m[j] = 0..(cols - 1)

---------------------------------------------------------------------------
(* brain.py: the populations and the Brain base class *)

DEFAULT == "DEFAULT"
TRAINING == "TRAINING"
TESTING == "TESTING"
BrainLearningMode == {DEFAULT, TRAINING, TESTING}

OutputN == 2
OutputK == 1
OutputBeta == 3

Stimulus(k) == [k |-> k]

Area(name, n, k, beta) ==
    [name |-> name, n |-> n, k |-> k, beta |-> beta,
     stimulus_beta |-> EmptyDict, area_beta |-> EmptyDict,
     support |-> [i \in 0..(n - 1) |-> 0], support_size |-> 0,
     winners |-> << >>, new_winners |-> << >>, new_support_size |-> 0]

OutputArea(name) ==
    [name |-> name, n |-> OutputN, k |-> OutputK, beta |-> OutputBeta,
     stimulus_beta |-> EmptyDict, area_beta |-> EmptyDict,
     support |-> [i \in 0..(OutputN - 1) |-> 0], support_size |-> 0,
     winners |-> << >>, new_winners |-> << >>, new_support_size |-> 0,
     desired_output |-> << >>]

EmptyBrain ==
    [stimuli |-> EmptyDict, areas |-> EmptyDict, output_areas |-> EmptyDict,
     stimuli_connectomes |-> EmptyDict, connectomes |-> EmptyDict,
     output_connectomes |-> EmptyDict, output_stimuli_connectomes |-> EmptyDict,
     learning_mode |-> DEFAULT]

\* The Brain object as a value, and the assignment of one to the variables.
Brain ==
    [stimuli |-> stimuli, areas |-> areas, output_areas |-> output_areas,
     stimuli_connectomes |-> stimuli_connectomes, connectomes |-> connectomes,
     output_connectomes |-> output_connectomes,
     output_stimuli_connectomes |-> output_stimuli_connectomes,
     learning_mode |-> learning_mode]

BrainNext ==
    [stimuli |-> stimuli', areas |-> areas', output_areas |-> output_areas',
     stimuli_connectomes |-> stimuli_connectomes', connectomes |-> connectomes',
     output_connectomes |-> output_connectomes',
     output_stimuli_connectomes |-> output_stimuli_connectomes',
     learning_mode |-> learning_mode']

Becomes(b) ==
    /\ stimuli' = b.stimuli
    /\ areas' = b.areas
    /\ output_areas' = b.output_areas
    /\ stimuli_connectomes' = b.stimuli_connectomes
    /\ connectomes' = b.connectomes
    /\ output_connectomes' = b.output_connectomes
    /\ output_stimuli_connectomes' = b.output_stimuli_connectomes
    /\ learning_mode' = b.learning_mode

---------------------------------------------------------------------------
(* non_lazy_brain.py: creation of populations *)

\* Mutant of conectomes_init_area: the populations that the new area projects into
\* record the beta of the new area, the source, for its connectomes.
ConectomesInitAreaSourceBeta(b, name, beta, seed) ==
    LET area == b.areas[name]
        stims == DOMAIN b.stimuli_connectomes
        others == DOMAIN b.areas
        outs == DOMAIN b.output_areas
        new_connectomes ==
            [o \in others |-> binomial(seed, StreamPos(name, o), area.n, b.areas[o].n)]
        incoming ==
            [o \in DOMAIN b.connectomes |->
                IF o \in others /\ o # name
                THEN Put(b.connectomes[o], name,
                         binomial(seed, StreamPos(o, name), b.areas[o].n, area.n))
                ELSE b.connectomes[o]]
    IN  [b EXCEPT
            !.stimuli_connectomes =
                [s \in stims |->
                    Put(b.stimuli_connectomes[s], name,
                        binomial(seed, StreamPos(s, name), b.stimuli[s].k, area.n))],
            !.connectomes = Put(incoming, name, new_connectomes),
            !.output_connectomes =
                IF outs = {} THEN b.output_connectomes
                ELSE Put(b.output_connectomes, name,
                         PutAll(Row(b.output_connectomes, name),
                                [o \in outs |-> binomial(seed, StreamPos(name, o), area.n,
                                                         b.output_areas[o].n)])),
            !.areas =
                [o \in others |->
                    IF o = name
                    THEN [area EXCEPT
                            !.stimulus_beta = PutAll(area.stimulus_beta, [x \in stims |-> beta]),
                            !.area_beta = PutAll(area.area_beta, [x \in others |-> beta])]
                    ELSE [b.areas[o] EXCEPT
                            !.area_beta = Put(b.areas[o].area_beta, name, beta)]],
            !.output_areas =
                [o \in outs |->
                    [b.output_areas[o] EXCEPT
                        !.area_beta = Put(b.output_areas[o].area_beta, name, beta)]]]

conectomes_init_area(b, name, beta, seed) ==
    LET area == b.areas[name]
        stims == DOMAIN b.stimuli_connectomes
        others == DOMAIN b.areas
        outs == DOMAIN b.output_areas
        new_connectomes ==
            [o \in others |-> binomial(seed, StreamPos(name, o), area.n, b.areas[o].n)]
        incoming ==
            [o \in DOMAIN b.connectomes |->
                IF o \in others /\ o # name
                THEN Put(b.connectomes[o], name,
                         binomial(seed, StreamPos(o, name), b.areas[o].n, area.n))
                ELSE b.connectomes[o]]
    IN  [b EXCEPT
            !.stimuli_connectomes =
                [s \in stims |->
                    Put(b.stimuli_connectomes[s], name,
                        binomial(seed, StreamPos(s, name), b.stimuli[s].k, area.n))],
            !.connectomes = Put(incoming, name, new_connectomes),
            !.output_connectomes =
                IF outs = {} THEN b.output_connectomes
                ELSE Put(b.output_connectomes, name,
                         PutAll(Row(b.output_connectomes, name),
                                [o \in outs |-> binomial(seed, StreamPos(name, o), area.n,
                                                         b.output_areas[o].n)])),
            !.areas =
                [o \in others |->
                    IF o = name
                    THEN [area EXCEPT
                            !.stimulus_beta = PutAll(area.stimulus_beta, [x \in stims |-> beta]),
                            !.area_beta = PutAll(area.area_beta, [x \in others |-> beta])]
                    ELSE [b.areas[o] EXCEPT
                            !.area_beta = Put(b.areas[o].area_beta, name, b.areas[o].beta)]],
            !.output_areas =
                [o \in outs |->
                    [b.output_areas[o] EXCEPT
                        !.area_beta = Put(b.output_areas[o].area_beta, name,
                                          b.output_areas[o].beta)]]]

\* Mutant of conectomes_init_output_area: the dict of a stimulus is replaced by a new
\* one that holds the new connectome only.
ConectomesInitOutputAreaNewDict(b, name, beta) ==
    LET area == b.output_areas[name]
        stims == DOMAIN b.stimuli_connectomes
        others == DOMAIN b.areas
    IN  [b EXCEPT
            !.stimuli_connectomes =
                [s \in stims |-> Put(EmptyDict, name, zeros(b.stimuli[s].k, area.n))],
            !.output_connectomes = PutAll(b.output_connectomes,
                       [o \in others |-> Put(Row(b.output_connectomes, o), name,
                                             ones(b.areas[o].n, area.n))]),
            !.output_areas =
                Put(b.output_areas, name,
                    [area EXCEPT
                        !.stimulus_beta = PutAll(area.stimulus_beta, [x \in stims |-> beta]),
                        !.area_beta = PutAll(area.area_beta, [x \in others |-> beta])])]

conectomes_init_output_area(b, name, beta) ==
    LET area == b.output_areas[name]
        stims == DOMAIN b.stimuli_connectomes
        others == DOMAIN b.areas
    IN  [b EXCEPT
            !.stimuli_connectomes =
                [s \in stims |->
                    Put(b.stimuli_connectomes[s], name, zeros(b.stimuli[s].k, area.n))],
            !.output_connectomes = PutAll(b.output_connectomes,
                       [o \in others |-> Put(Row(b.output_connectomes, o), name,
                                             ones(b.areas[o].n, area.n))]),
            !.output_areas =
                Put(b.output_areas, name,
                    [area EXCEPT
                        !.stimulus_beta = PutAll(area.stimulus_beta, [x \in stims |-> beta]),
                        !.area_beta = PutAll(area.area_beta, [x \in others |-> beta])])]

conectomes_init_stimulus(b, name, seed) ==
    LET stimulus == b.stimuli[name]
        to_areas ==
            [a \in DOMAIN b.areas |->
                binomial(seed, StreamPos(name, a), stimulus.k, b.areas[a].n)]
        to_outputs ==
            [o \in DOMAIN b.output_areas |->
                binomial(seed, StreamPos(name, o), stimulus.k, b.output_areas[o].n)]
    IN  [b EXCEPT
            !.stimuli_connectomes =
                Put(b.stimuli_connectomes, name, PutAll(EmptyDict, to_areas)),
            !.output_stimuli_connectomes =
                Put(b.output_stimuli_connectomes, name,
                    PutAll(EmptyDict, to_outputs)),
            !.areas =
                [a \in DOMAIN b.areas |->
                    [b.areas[a] EXCEPT
                        !.stimulus_beta = Put(b.areas[a].stimulus_beta, name, b.areas[a].beta)]],
            !.output_areas =
                [o \in DOMAIN b.output_areas |->
                    [b.output_areas[o] EXCEPT
                        !.stimulus_beta = Put(b.output_areas[o].stimulus_beta, name,
                                              b.output_areas[o].beta)]]]

add_stimulus(b, name, k, seed) ==
    conectomes_init_stimulus([b EXCEPT !.stimuli = Put(b.stimuli, name, Stimulus(k))],
                             name, seed)

add_output_area_ok(b, name) == name \notin DOMAIN b.areas

add_output_area(b, name) ==
    conectomes_init_output_area(
        [b EXCEPT !.output_areas = Put(b.output_areas, name, OutputArea(name))],
        name, OutputBeta)

add_area_ok(b, name) == name \notin DOMAIN b.output_areas

add_area(b, name, n, k, beta, seed) ==
    conectomes_init_area([b EXCEPT !.areas = Put(b.areas, name, Area(name, n, k, beta))],
                         name, beta, seed)

---------------------------------------------------------------------------
(* brain.py: connectome lookup *)

IsOutputArea(b, name) == name \in DOMAIN b.output_areas

Target(b, name) == IF IsOutputArea(b, name) THEN b.output_areas[name] ELSE b.areas[name]

SetTarget(b, name, area) ==
    IF IsOutputArea(b, name)
    THEN [b EXCEPT !.output_areas = Put(b.output_areas, name, area)]
    ELSE [b EXCEPT !.areas = Put(b.areas, name, area)]

area_family(b, to_area) ==
    IF IsOutputArea(b, to_area) THEN b.output_connectomes ELSE b.connectomes

stimulus_family(b, to_area) ==
    IF IsOutputArea(b, to_area) THEN b.output_stimuli_connectomes ELSE b.stimuli_connectomes

has_area_connectomes(b, from_area, to_area) ==
    /\ from_area \in DOMAIN area_family(b, to_area)
    /\ to_area \in DOMAIN area_family(b, to_area)[from_area]

get_area_connectomes(b, from_area, to_area) == area_family(b, to_area)[from_area][to_area]

has_stimulus_connectomes(b, stim, to_area) ==
    /\ stim \in DOMAIN stimulus_family(b, to_area)
    /\ to_area \in DOMAIN stimulus_family(b, to_area)[stim]

get_stimulus_connectomes(b, stim, to_area) == stimulus_family(b, to_area)[stim][to_area]

\* Assignment through the array that the lookup returns.
set_area_connectomes(b, from_area, to_area, m) ==
    IF IsOutputArea(b, to_area)
    THEN [b EXCEPT !.output_connectomes = Put2(b.output_connectomes, from_area, to_area, m)]
    ELSE [b EXCEPT !.connectomes = Put2(b.connectomes, from_area, to_area, m)]

set_stimulus_connectomes(b, stim, to_area, m) ==
    IF IsOutputArea(b, to_area)
    THEN [b EXCEPT !.output_stimuli_connectomes =
                        Put2(b.output_stimuli_connectomes, stim, to_area, m)]
    ELSE [b EXCEPT !.stimuli_connectomes = Put2(b.stimuli_connectomes, stim, to_area, m)]

---------------------------------------------------------------------------
(* non_lazy_brain.py: projection *)

\* Whether project_into_calculate_inputs finds every population and matrix it reads.
inputs_defined(b, t, from_stimuli, from_areas) ==
    /\ \A a \in from_areas :
        /\ has_area_connectomes(b, a, t)
        /\ a \in DOMAIN b.areas
        /\ IsMatrix(get_area_connectomes(b, a, t), b.areas[a].n, Target(b, t).n)
    /\ \A s \in from_stimuli :
        /\ s \in DOMAIN b.stimuli
        /\ has_stimulus_connectomes(b, s, t)
        /\ IsMatrix(get_stimulus_connectomes(b, s, t), b.stimuli[s].k, Target(b, t).n)

\* Mutant of project_into_calculate_inputs: every row of the connectome of a source
\* area is summed, whether its neuron is a winner or not.
CalculateInputsAllRows(b, t, from_stimuli, from_areas) ==
    LET area == Target(b, t)
        FromArea(a, i) ==
            LET m == get_area_connectomes(b, a, t)
            IN  SumOver([j \in DOMAIN m |-> m[j][i]], DOMAIN m)
        FromStim(s, i) ==
            LET m == get_stimulus_connectomes(b, s, t)
                rows == 0..(b.stimuli[s].k - 1)
            IN  SumOver([j \in rows |-> 1 * m[j][i]], rows)
    IN  [i \in 0..(area.n - 1) |->
            SumOver([a \in from_areas |-> FromArea(a, i)], from_areas)
            + SumOver([s \in from_stimuli |-> FromStim(s, i)], from_stimuli)]

\* Mutant of project_into_calculate_inputs: the rows summed for a source area are its
\* new winners, which a projection into that area in the same round has replaced.
CalculateInputsFromNewWinners(b, t, from_stimuli, from_areas) ==
    LET area == Target(b, t)
        FromArea(a, i) ==
            LET m == get_area_connectomes(b, a, t)
                w == b.areas[a].new_winners
            IN  SumOver([p \in DOMAIN w |-> m[w[p]][i]], DOMAIN w)
        FromStim(s, i) ==
            LET m == get_stimulus_connectomes(b, s, t)
                rows == 0..(b.stimuli[s].k - 1)
            IN  SumOver([j \in rows |-> 1 * m[j][i]], rows)
    IN  [i \in 0..(area.n - 1) |->
            SumOver([a \in from_areas |-> FromArea(a, i)], from_areas)
            + SumOver([s \in from_stimuli |-> FromStim(s, i)], from_stimuli)]

project_into_calculate_inputs(b, t, from_stimuli, from_areas) ==
    LET area == Target(b, t)
        FromArea(a, i) ==
            LET m == get_area_connectomes(b, a, t)
                w == b.areas[a].winners
            IN  SumOver([p \in DOMAIN w |-> m[w[p]][i]], DOMAIN w)
        FromStim(s, i) ==
            LET m == get_stimulus_connectomes(b, s, t)
                rows == 0..(b.stimuli[s].k - 1)
            IN  SumOver([j \in rows |-> 1 * m[j][i]], rows)
    IN  [i \in 0..(area.n - 1) |->
            SumOver([a \in from_areas |-> FromArea(a, i)], from_areas)
            + SumOver([s \in from_stimuli |-> FromStim(s, i)], from_stimuli)]

\* Mutant of Before: among equal inputs the higher index comes first.
BeforeHigherIndex(inputs, x, y) ==
    inputs[x] > inputs[y] \/ (inputs[x] = inputs[y] /\ x >= y)

\* Whether index x comes before index y in sorted(..., key=inputs, reverse=True).
Before(inputs, x, y) == inputs[x] > inputs[y] \/ (inputs[x] = inputs[y] /\ x <= y)

RECURSIVE TakeLargest(_, _, _)
TakeLargest(count, rest, inputs) ==
    IF count = 0 \/ rest = {} THEN << >>
    ELSE LET best == CHOOSE x \in rest : \A y \in rest : Before(inputs, x, y)
         IN  <<best>> \o TakeLargest(count - 1, rest \ {best}, inputs)

\* heapq.nlargest(k, list(range(len(inputs))), inputs.__getitem__)
nlargest(k, inputs) == TakeLargest(k, DOMAIN inputs, inputs)

\* Mutant of select_winners: the label never replaces the computed winners.
SelectWinnersNoClamp(b, t, inputs) == nlargest(Target(b, t).k, inputs)

select_winners(b, t, inputs) ==
    LET area == Target(b, t)
    IN  IF b.learning_mode # TRAINING \/ ~IsOutputArea(b, t)
        THEN nlargest(area.k, inputs)
        ELSE area.desired_output

\* Mutant of count_first_winners: every new winner counts as a first-time winner.
CountAllWinners(support, new_winners) == Cardinality(Range(new_winners))

count_first_winners(support, new_winners) ==
    Cardinality({w \in Range(new_winners) : support[w] = 0})

\* Mutant of new_support_size: the size the support had is forgotten.
NewSupportSizeReset(area, num_first_winners) == num_first_winners

new_support_size(area, num_first_winners) == num_first_winners + area.support_size

\* Mutant of project_into_calculate_winners: the new winners become the winners of the
\* area at once, not at the end of the round.
CalculateWinnersAtOnce(b, t, inputs) ==
    LET area == Target(b, t)
        new_winners == select_winners(b, t, inputs)
        num_first_winners == count_first_winners(area.support, new_winners)
    IN  [brain |-> SetTarget(b, t,
                     [area EXCEPT
                        !.new_winners = new_winners,
                        !.winners = new_winners,
                        !.support = [i \in DOMAIN area.support |->
                                        IF i \in Range(new_winners) THEN 1
                                        ELSE area.support[i]],
                        !.new_support_size = new_support_size(area, num_first_winners)]),
         ret |-> num_first_winners]

project_into_calculate_winners(b, t, inputs) ==
    LET area == Target(b, t)
        new_winners == select_winners(b, t, inputs)
        num_first_winners == count_first_winners(area.support, new_winners)
    IN  [brain |-> SetTarget(b, t,
                     [area EXCEPT
                        !.new_winners = new_winners,
                        !.support = [i \in DOMAIN area.support |->
                                        IF i \in Range(new_winners) THEN 1
                                        ELSE area.support[i]],
                        !.new_support_size = new_support_size(area, num_first_winners)]),
         ret |-> num_first_winners]

\* The winners of a source area whose synapses are strengthened.
from_area_winners(b, from_area) == b.areas[from_area].new_winners

\* Mutant of update_stimulus_connectome: the rows of the new winners are strengthened
\* instead of their columns.
UpdateStimulusRows(b, t, stim) ==
    LET area == Target(b, t)
        beta == area.stimulus_beta[stim]
        m == get_stimulus_connectomes(b, stim, t)
    IN  [j \in DOMAIN m |-> [i \in DOMAIN m[j] |->
            m[j][i] * Pow(1 + beta, Occurrences(area.new_winners, j))]]

update_stimulus_connectome(b, t, stim) ==
    LET area == Target(b, t)
        beta == area.stimulus_beta[stim]
        m == get_stimulus_connectomes(b, stim, t)
        rows == 0..(b.stimuli[stim].k - 1)
    IN  [j \in DOMAIN m |-> [i \in DOMAIN m[j] |->
            IF j \in rows
            THEN m[j][i] * Pow(1 + beta, Occurrences(area.new_winners, i))
            ELSE m[j][i]]]

update_area_connectome(b, t, from_area) ==
    LET area == Target(b, t)
        beta == area.area_beta[from_area]
        m == get_area_connectomes(b, from_area, t)
        fw == from_area_winners(b, from_area)
    IN  [j \in DOMAIN m |-> [i \in DOMAIN m[j] |->
            m[j][i] * Pow(1 + beta,
                          Occurrences(fw, j) * Occurrences(area.new_winners, i))]]

RECURSIVE UpdateStimuli(_, _, _)
UpdateStimuli(b, t, todo) ==
    IF todo = {} THEN b
    ELSE LET s == CHOOSE x \in todo : TRUE
         IN  UpdateStimuli(
                set_stimulus_connectomes(b, s, t, update_stimulus_connectome(b, t, s)),
                t, todo \ {s})

\* Mutant of UpdateAreas: the synapses from the target back to each source area are
\* strengthened as well.
RECURSIVE UpdateAreasBothWays(_, _, _)
UpdateAreasBothWays(b, t, todo) ==
    IF todo = {} THEN b
    ELSE LET a == CHOOSE x \in todo : TRUE
             forth == set_area_connectomes(b, a, t, update_area_connectome(b, t, a))
             back == IF t \in DOMAIN forth.areas /\ has_area_connectomes(forth, t, a)
                     THEN set_area_connectomes(forth, t, a,
                                               update_area_connectome(forth, a, t))
                     ELSE forth
         IN  UpdateAreasBothWays(back, t, todo \ {a})

RECURSIVE UpdateAreas(_, _, _)
UpdateAreas(b, t, todo) ==
    IF todo = {} THEN b
    ELSE LET a == CHOOSE x \in todo : TRUE
         IN  UpdateAreas(
                set_area_connectomes(b, a, t, update_area_connectome(b, t, a)),
                t, todo \ {a})

project_into_update_connectomes(b, t, from_stimuli, from_areas) ==
    UpdateAreas(UpdateStimuli(b, t, from_stimuli), t, from_areas)

\* Mutant of plasticity_enabled: the connectomes are updated in the default mode only.
PlasticityOnlyDefault(b) == b.learning_mode = DEFAULT

\* Mutant of plasticity_enabled: the learning mode is not consulted.
PlasticityAlways(b) == TRUE

plasticity_enabled(b) == b.learning_mode # TESTING

project_into(b, t, from_stimuli, from_areas) ==
    LET inputs == project_into_calculate_inputs(b, t, from_stimuli, from_areas)
        won == project_into_calculate_winners(b, t, inputs)
    IN  [brain |-> IF plasticity_enabled(b)
                   THEN project_into_update_connectomes(won.brain, t, from_stimuli, from_areas)
                   ELSE won.brain,
         ret |-> won.ret,
         inputs |-> inputs]

---------------------------------------------------------------------------
(* brain.py: Area.update_winners, at the end of Brain.project *)

update_winners(area) ==
    [area EXCEPT !.winners = area.new_winners, !.support_size = area.new_support_size]

---------------------------------------------------------------------------
(* The state machine *)

NoCall == [op |-> "init", target |-> "", from_stimuli |-> {}, from_areas |-> {},
           ok |-> TRUE, ret |-> 0, inputs |-> << >>]

\* LearningModel.__init__: no accuracy has been saved.  Accuracies are natural numbers
\* of hundredths, and None is a value apart from all of them.
None == -1

NoModel == [saved_accuracy |-> None, tested |-> FALSE]

Init ==
    /\ stimuli = EmptyBrain.stimuli
    /\ areas = EmptyBrain.areas
    /\ output_areas = EmptyBrain.output_areas
    /\ stimuli_connectomes = EmptyBrain.stimuli_connectomes
    /\ connectomes = EmptyBrain.connectomes
    /\ output_connectomes = EmptyBrain.output_connectomes
    /\ output_stimuli_connectomes = EmptyBrain.output_stimuli_connectomes
    /\ learning_mode = EmptyBrain.learning_mode
    /\ to_update = {}
    /\ steps = 0
    /\ returned = EmptyDict
    /\ call = NoCall
    /\ learning_model = NoModel

Used == DOMAIN stimuli \cup DOMAIN areas \cup DOMAIN output_areas

Created(op, name) == [NoCall EXCEPT !.op = op, !.target = name]

AddStimulus ==
    \E name \in StimNames \ Used, k \in StimKs, seed \in Seeds :
        /\ steps = 0
        /\ \E b \in {add_stimulus(Brain, name, k, seed)} : Becomes(b)
        /\ call' = Created("add_stimulus", name)
        /\ UNCHANGED <<to_update, steps, returned, learning_model>>

AddArea ==
    \E name \in AreaNames \ Used, shape \in Shapes, beta \in Betas, seed \in Seeds :
        /\ steps = 0
        /\ add_area_ok(Brain, name)
        /\ \E b \in {add_area(Brain, name, shape[1], shape[2], beta, seed)} : Becomes(b)
        /\ call' = Created("add_area", name)
        /\ UNCHANGED <<to_update, steps, returned, learning_model>>

AddOutputArea ==
    \E name \in OutputNames \ Used :
        /\ steps = 0
        /\ add_output_area_ok(Brain, name)
        /\ \E b \in {add_output_area(Brain, name)} : Becomes(b)
        /\ call' = Created("add_output_area", name)
        /\ UNCHANGED <<to_update, steps, returned, learning_model>>

NextCreate == AddStimulus \/ AddArea \/ AddOutputArea

SpecCreate == Init /\ [][NextCreate]_vars

---------------------------------------------------------------------------
(* Creation calls by a caller that may give any name to any kind of population: a
   call is made whatever populations exist, it raises where the code asserts, and a
   caller that catches the AssertionError goes on with the Brain as it was *)

AddStimulusNamed ==
    \E name \in NamePool, k \in StimKs, seed \in BuiltSeeds :
        /\ steps < MaxCalls
        /\ \E b \in {add_stimulus(Brain, name, k, seed)} : Becomes(b)
        /\ call' = Created("add_stimulus", name)
        /\ steps' = steps + 1
        /\ UNCHANGED <<to_update, returned, learning_model>>

AddAreaNamed ==
    \E name \in NamePool, shape \in Shapes, beta \in Betas, seed \in BuiltSeeds :
        /\ steps < MaxCalls
        /\ add_area_ok(Brain, name)
        /\ \E b \in {add_area(Brain, name, shape[1], shape[2], beta, seed)} : Becomes(b)
        /\ call' = Created("add_area", name)
        /\ steps' = steps + 1
        /\ UNCHANGED <<to_update, returned, learning_model>>

AddAreaRejected ==
    \E name \in NamePool :
        /\ steps < MaxCalls
        /\ ~add_area_ok(Brain, name)
        /\ call' = [Created("add_area", name) EXCEPT !.ok = FALSE]
        /\ steps' = steps + 1
        /\ UNCHANGED <<stimuli, areas, output_areas, stimuli_connectomes, connectomes,
                       output_connectomes, output_stimuli_connectomes, learning_mode,
                       to_update, returned, learning_model>>

AddOutputAreaNamed ==
    \E name \in NamePool :
        /\ steps < MaxCalls
        /\ add_output_area_ok(Brain, name)
        /\ \E b \in {add_output_area(Brain, name)} : Becomes(b)
        /\ call' = Created("add_output_area", name)
        /\ steps' = steps + 1
        /\ UNCHANGED <<to_update, returned, learning_model>>

AddOutputAreaRejected ==
    \E name \in NamePool :
        /\ steps < MaxCalls
        /\ ~add_output_area_ok(Brain, name)
        /\ call' = [Created("add_output_area", name) EXCEPT !.ok = FALSE]
        /\ steps' = steps + 1
        /\ UNCHANGED <<stimuli, areas, output_areas, stimuli_connectomes, connectomes,
                       output_connectomes, output_stimuli_connectomes, learning_mode,
                       to_update, returned, learning_model>>

NextNames ==
    \/ AddStimulusNamed
    \/ AddAreaNamed
    \/ AddAreaRejected
    \/ AddOutputAreaNamed
    \/ AddOutputAreaRejected

SpecNames == Init /\ [][NextNames]_vars

---------------------------------------------------------------------------
(* Projection: the brains that the creation calls build, then rounds of
   Brain.project under a learning mode set from outside *)

\* The populations S, A, B and O created in one of two orders: the output area
\* last, or the output area first.
BuiltBrain(outputFirst, ks, shape, seed) ==
    LET b0 == IF outputFirst THEN add_output_area(EmptyBrain, "O") ELSE EmptyBrain
        b1 == add_stimulus(b0, "S", ks, seed)
        b2 == add_area(b1, "A", shape[1], shape[2], 1, seed)
        b3 == add_area(b2, "B", 2, 1, 2, seed)
    IN  IF outputFirst THEN b3 ELSE add_output_area(b3, "O")

InitProject ==
    /\ \E outputFirst \in BOOLEAN, shape \in Shapes, seed \in BuiltSeeds :
        LET b == BuiltBrain(outputFirst, 2, shape, seed)
        IN  /\ stimuli = b.stimuli
            /\ areas = b.areas
            /\ output_areas = b.output_areas
            /\ stimuli_connectomes = b.stimuli_connectomes
            /\ connectomes = b.connectomes
            /\ output_connectomes = b.output_connectomes
            /\ output_stimuli_connectomes = b.output_stimuli_connectomes
            /\ learning_mode = b.learning_mode
    /\ to_update = {}
    /\ steps = 0
    /\ returned = EmptyDict
    /\ call = NoCall
    /\ learning_model = NoModel

Targets == DOMAIN areas \cup DOMAIN output_areas

\* The setter of the learning mode, used before a batch of rounds.
SetLearningMode ==
    \E mode \in BrainLearningMode \ {learning_mode} :
        /\ call.ok
        /\ to_update = {}
        /\ steps < MaxSteps
        /\ learning_mode' = mode
        /\ call' = [NoCall EXCEPT !.op = "set_learning_mode"]
        /\ UNCHANGED <<stimuli, areas, output_areas, stimuli_connectomes, connectomes,
                       output_connectomes, output_stimuli_connectomes,
                       to_update, steps, returned, learning_model>>

\* The label of a supervised round.
SetDesiredOutput ==
    \E o \in DOMAIN output_areas, label \in 0..(OutputN - 1) :
        /\ call.ok
        /\ learning_mode = TRAINING
        /\ to_update = {}
        /\ steps < MaxSteps
        /\ output_areas[o].desired_output # <<label>>
        /\ output_areas' = [output_areas EXCEPT ![o].desired_output = <<label>>]
        /\ call' = [NoCall EXCEPT !.op = "set_desired_output", !.target = o]
        /\ UNCHANGED <<stimuli, areas, stimuli_connectomes, connectomes,
                       output_connectomes, output_stimuli_connectomes, learning_mode,
                       to_update, steps, returned, learning_model>>

\* One project_into call of a round of Brain.project; a round projects into each of
\* its targets once.
ProjectInto ==
    \E t \in Targets \ to_update, fs \in SUBSET (DOMAIN stimuli), fa \in SUBSET (DOMAIN areas) :
        /\ call.ok
        /\ steps < MaxSteps
        /\ fs \cup fa # {}
        /\ inputs_defined(Brain, t, fs, fa)
        /\ \E r \in {project_into(Brain, t, fs, fa)} :
               /\ Becomes(r.brain)
               /\ returned' = Put(returned, t, (IF t \in DOMAIN returned THEN returned[t] ELSE 0) + r.ret)
               /\ call' = [op |-> "project_into", target |-> t, from_stimuli |-> fs,
                           from_areas |-> fa, ok |-> TRUE, ret |-> r.ret,
                           inputs |-> r.inputs]
        /\ to_update' = to_update \cup {t}
        /\ steps' = steps + 1
        /\ UNCHANGED learning_model

\* project_into raises while it computes the inputs: nothing has been written, and
\* no caller catches the exception.
ProjectIntoRaises ==
    \E t \in Targets \ to_update, fs \in SUBSET (DOMAIN stimuli), fa \in SUBSET (DOMAIN areas) :
        /\ call.ok
        /\ steps < MaxSteps
        /\ ~inputs_defined(Brain, t, fs, fa)
        /\ call' = [NoCall EXCEPT !.op = "project_into", !.target = t, !.from_stimuli = fs,
                                  !.from_areas = fa, !.ok = FALSE]
        /\ steps' = steps + 1
        /\ UNCHANGED <<stimuli, areas, output_areas, stimuli_connectomes, connectomes,
                       output_connectomes, output_stimuli_connectomes, learning_mode,
                       to_update, returned, learning_model>>

\* The end of a round: every target of the round takes its new winners.
UpdateWinners ==
    /\ call.ok
    /\ to_update # {}
    /\ areas' = [a \in DOMAIN areas |->
                    IF a \in to_update THEN update_winners(areas[a]) ELSE areas[a]]
    /\ output_areas' = [o \in DOMAIN output_areas |->
                    IF o \in to_update THEN update_winners(output_areas[o])
                    ELSE output_areas[o]]
    /\ to_update' = {}
    /\ call' = [NoCall EXCEPT !.op = "update_winners"]
    /\ UNCHANGED <<stimuli, stimuli_connectomes, connectomes, output_connectomes,
                   output_stimuli_connectomes, learning_mode, steps, returned,
                   learning_model>>

Next == SetLearningMode \/ SetDesiredOutput \/ ProjectInto \/ ProjectIntoRaises \/ UpdateWinners

Spec == InitProject /\ [][Next]_vars

---------------------------------------------------------------------------
(* Rounds of Brain.project on one brain in which every connectome that a projection
   looks up exists: the output area is created first *)

RoundShape == <<3, 1>>

InitRound ==
    /\ \E seed \in BuiltSeeds :
        LET b == BuiltBrain(TRUE, 2, RoundShape, seed)
        IN  /\ stimuli = b.stimuli
            /\ areas = b.areas
            /\ output_areas = b.output_areas
            /\ stimuli_connectomes = b.stimuli_connectomes
            /\ connectomes = b.connectomes
            /\ output_connectomes = b.output_connectomes
            /\ output_stimuli_connectomes = b.output_stimuli_connectomes
            /\ learning_mode = b.learning_mode
    /\ to_update = {}
    /\ steps = 0
    /\ returned = EmptyDict
    /\ call = NoCall
    /\ learning_model = NoModel

NextRound == SetLearningMode \/ SetDesiredOutput \/ ProjectInto \/ UpdateWinners

SpecRound == InitRound /\ [][NextRound]_vars

---------------------------------------------------------------------------
(* project_into called with lists of source names that the caller chooses freely, a
   name of no population among them *)

\* The lists without repetition of at most two of the names.
SourceLists(names) ==
    {<< >>} \cup {<<x>> : x \in names}
            \cup {pair \in names \X names : pair[1] # pair[2]}

\* Whether the loop over from_areas finds the connectome and the area of every name.
areas_defined(b, t, from_areas) ==
    \A p \in 1..Len(from_areas) :
        inputs_defined(b, t, {}, {from_areas[p]})

\* Whether the list comprehension over from_stimuli finds the stimulus and the
\* connectome of every name.
stimuli_defined(b, t, from_stimuli) ==
    \A p \in 1..Len(from_stimuli) :
        inputs_defined(b, t, {from_stimuli[p]}, {})

\* Mutant of project_into_raised: the connectomes of the sources that were found are
\* strengthened before the unknown name is met.
ProjectIntoRaisedLate(b, t, from_stimuli, from_areas) ==
    LET known_s == {s \in Range(from_stimuli) : inputs_defined(b, t, {s}, {})}
        known_a == {a \in Range(from_areas) : inputs_defined(b, t, {}, {a})}
        inputs == project_into_calculate_inputs(b, t, known_s, known_a)
        won == project_into_calculate_winners(b, t, inputs)
    IN  [brain |-> [project_into_update_connectomes(won.brain, t, known_s, known_a)
                        EXCEPT !.areas = b.areas, !.output_areas = b.output_areas],
         ok |-> FALSE, ret |-> 0, inputs |-> << >>]

\* The Brain when project_into_calculate_inputs raises: the inputs are computed before
\* the winners and the connectomes are written, so nothing has been written.
project_into_raised(b, t, from_stimuli, from_areas) ==
    [brain |-> b, ok |-> FALSE, ret |-> 0, inputs |-> << >>]

\* project_into on lists of names.
project_into_named(b, t, from_stimuli, from_areas) ==
    IF areas_defined(b, t, from_areas) /\ stimuli_defined(b, t, from_stimuli)
    THEN LET r == project_into(b, t, Range(from_stimuli), Range(from_areas))
         IN  [brain |-> r.brain, ok |-> TRUE, ret |-> r.ret, inputs |-> r.inputs]
    ELSE project_into_raised(b, t, from_stimuli, from_areas)

ProjectIntoNamed ==
    \E t \in Targets \ to_update,
       from_stimuli \in SourceLists(DOMAIN stimuli \cup {Unknown}),
       from_areas \in SourceLists(DOMAIN areas \cup {Unknown}) :
        /\ call.ok
        /\ steps < MaxNamed
        /\ from_stimuli \o from_areas # << >>
        /\ \E r \in {project_into_named(Brain, t, from_stimuli, from_areas)} :
               /\ Becomes(r.brain)
               /\ returned' = IF r.ok
                              THEN Put(returned, t,
                                       (IF t \in DOMAIN returned THEN returned[t] ELSE 0) + r.ret)
                              ELSE returned
               /\ call' = [op |-> "project_into", target |-> t,
                           from_stimuli |-> Range(from_stimuli),
                           from_areas |-> Range(from_areas),
                           ok |-> r.ok, ret |-> r.ret, inputs |-> r.inputs]
               /\ to_update' = IF r.ok THEN to_update \cup {t} ELSE to_update
        /\ steps' = steps + 1
        /\ UNCHANGED learning_model

NextNamed == ProjectIntoNamed \/ UpdateWinners

SpecNamed == InitProject /\ [][NextNamed]_vars

---------------------------------------------------------------------------
(* learning_model.py: LearningModel.test_model and the accuracy property.  A data
   point of the test set is the answer that run_model gives for its input, the first
   winner of the output area, next to its expected output; accuracies are kept in
   hundredths *)

Answers == 0..(OutputN - 1)

DataPoints == [run : Answers, output : Answers]

TestSets == UNION {[1..len -> DataPoints] : len \in 0..MaxRuns}

\* round(successful_runs / total_runs, 2) in hundredths; a quotient halfway between
\* two hundredths goes to the even one.
round2(successful_runs, total_runs) ==
    LET q == (100 * successful_runs) \div total_runs
        r == (100 * successful_runs) % total_runs
    IN  IF 2 * r > total_runs \/ (2 * r = total_runs /\ q % 2 = 1) THEN q + 1 ELSE q

successful_runs(test_set) ==
    Cardinality({p \in DOMAIN test_set : test_set[p].run = test_set[p].output})

\* test_model raises DomainSizeMismatch before it runs anything, and ZeroDivisionError
\* after an empty loop; otherwise it saves the accuracy.
test_model(m, test_set, same_domain_size) ==
    IF ~same_domain_size \/ Len(test_set) = 0
    THEN [model |-> m, ok |-> FALSE]
    ELSE [model |-> [saved_accuracy |-> round2(successful_runs(test_set), Len(test_set)),
                     tested |-> TRUE],
          ok |-> TRUE]

\* Python's `not value` for None and for a float.
falsy(value) == value = None \/ value = 0

\* The accuracy property: ModelNotTested or the saved value.
accuracy(m) ==
    IF falsy(m.saved_accuracy)
    THEN [ok |-> FALSE, ret |-> 0]
    ELSE [ok |-> TRUE, ret |-> m.saved_accuracy]

TestModel ==
    \E test_set \in TestSets, same_domain_size \in BOOLEAN :
        /\ steps < MaxTests
        /\ \E r \in {test_model(learning_model, test_set, same_domain_size)} :
               /\ learning_model' = r.model
               /\ call' = [NoCall EXCEPT !.op = "test_model", !.ok = r.ok,
                                         !.ret = successful_runs(test_set),
                                         !.inputs = test_set]
        /\ steps' = steps + 1
        /\ UNCHANGED <<stimuli, areas, output_areas, stimuli_connectomes, connectomes,
                       output_connectomes, output_stimuli_connectomes, learning_mode,
                       to_update, returned>>

ReadAccuracy ==
    /\ call.op # "accuracy"
    /\ \E r \in {accuracy(learning_model)} :
           call' = [NoCall EXCEPT !.op = "accuracy", !.ok = r.ok, !.ret = r.ret]
    /\ UNCHANGED <<stimuli, areas, output_areas, stimuli_connectomes, connectomes,
                   output_connectomes, output_stimuli_connectomes, learning_mode,
                   to_update, steps, returned, learning_model>>

NextLearning == TestModel \/ ReadAccuracy

SpecLearning == Init /\ [][NextLearning]_vars

---------------------------------------------------------------------------
(* Vocabulary of the properties *)

TargetNow(t) == IF t \in DOMAIN output_areas THEN output_areas[t] ELSE areas[t]

StimConn(s, t) ==
    IF t \in DOMAIN output_areas THEN output_stimuli_connectomes[s][t]
    ELSE stimuli_connectomes[s][t]

AreaConn(a, t) ==
    IF t \in DOMAIN output_areas THEN output_connectomes[a][t] ELSE connectomes[a][t]

TargetNext(t) == IF t \in DOMAIN output_areas' THEN output_areas'[t] ELSE areas'[t]

StimConnNext(s, t) ==
    IF t \in DOMAIN output_areas' THEN output_stimuli_connectomes'[s][t]
    ELSE stimuli_connectomes'[s][t]

AreaConnNext(a, t) ==
    IF t \in DOMAIN output_areas' THEN output_connectomes'[a][t] ELSE connectomes'[a][t]

Entries(m) == {m[j][i] : j \in DOMAIN m, i \in UNION {DOMAIN m[r] : r \in DOMAIN m}}

PopCount(support) == Cardinality({i \in DOMAIN support : support[i] = 1})

\* The last operation was a project_into call that returned.
Projected == call.op = "project_into" /\ call.ok

\* The call was one whose winners are forced to the label.
Clamped == learning_mode = TRAINING /\ call.target \in DOMAIN output_areas

\* w lists the min(k, n) indices of the largest inputs, larger inputs first and, among
\* equal inputs, lower indices first.
IsTopK(w, inputs, k, n) ==
    /\ Len(w) = IF k < n THEN k ELSE n
    /\ \A p \in 1..Len(w) : w[p] \in 0..(n - 1)
    /\ \A p, q \in 1..Len(w) : p # q => w[p] # w[q]
    /\ \A x \in Range(w), y \in (0..(n - 1)) \ Range(w) :
            inputs[x] > inputs[y] \/ (inputs[x] = inputs[y] /\ x < y)
    /\ \A p, q \in 1..Len(w) :
            p < q => \/ inputs[w[p]] > inputs[w[q]]
                     \/ (inputs[w[p]] = inputs[w[q]] /\ w[p] < w[q])

---------------------------------------------------------------------------
(* Properties *)

\* C1: after every project_into call that is not clamped, the target's new winners are
\* min(k, n) distinct indices below n, they are the indices of the k largest inputs, and
\* of two neurons with equal input the one with the lower index is selected first.
C1_WinnersAreTopK ==
    (Projected /\ ~Clamped) =>
        LET area == TargetNow(call.target)
        IN  IsTopK(area.new_winners, call.inputs, area.k, area.n)

\* A call that selects fewer winners than neurons, where a winner and a loser have the
\* same input and another neuron has a smaller one.
C1_Witness ==
    /\ Projected /\ ~Clamped
    /\ LET area == TargetNow(call.target)
           w == Range(area.new_winners)
       IN  /\ area.k < area.n
           /\ \E x \in w, y \in (DOMAIN call.inputs) \ w : call.inputs[x] = call.inputs[y]
           /\ \E x \in w, y \in (DOMAIN call.inputs) \ w : call.inputs[x] > call.inputs[y]

\* C2: in a mode other than TESTING, for each source area of a project_into call, the
\* entries of the source -> target connectome that are multiplied by
\* 1 + target.area_beta[source] are exactly the pairs (j, i) with j a winner of the
\* source as the input aggregation read it and i a new winner of the target.
C2_AreaPlasticity ==
    [][(call'.op = "project_into" /\ call'.ok /\ learning_mode # TESTING) =>
        \A a \in call'.from_areas :
            LET t == call'.target
                m == AreaConn(a, t)
                after == AreaConnNext(a, t)
                prior == Range(areas[a].winners)
                new == Range(TargetNext(t).new_winners)
                beta == TargetNow(t).area_beta[a]
            IN  \A j \in DOMAIN m : \A i \in DOMAIN m[j] :
                    after[j][i] = IF j \in prior /\ i \in new
                                  THEN m[j][i] * (1 + beta) ELSE m[j][i]]_vars

\* C3: in a mode other than TESTING, for each stimulus of a project_into call, every
\* entry (j, i) of the stimulus -> target connectome with i a new winner of the target
\* is its prior value times 1 + target.stimulus_beta[stimulus], and every entry of a
\* column that is no new winner keeps its value.
C3_StimulusPlasticity ==
    [][(call'.op = "project_into" /\ call'.ok /\ learning_mode # TESTING) =>
        \A s \in call'.from_stimuli :
            LET t == call'.target
                m == StimConn(s, t)
                after == StimConnNext(s, t)
                new == Range(TargetNext(t).new_winners)
                beta == TargetNow(t).stimulus_beta[s]
            IN  /\ DOMAIN after = DOMAIN m
                /\ \A j \in DOMAIN m : \A i \in DOMAIN m[j] :
                        after[j][i] = IF i \in new THEN m[j][i] * (1 + beta) ELSE m[j][i]]_vars

\* A call with a stimulus that strengthened a synapse into a new winner and kept a
\* synapse of the same stimulus neuron into a neuron that did not win.
C3_Witness ==
    /\ Projected /\ learning_mode # TESTING
    /\ \E s \in call.from_stimuli :
        LET m == StimConn(s, call.target)
            new == Range(TargetNow(call.target).new_winners)
        IN  \E j \in DOMAIN m : \E i, i2 \in DOMAIN m[j] :
                i \in new /\ i2 \notin new /\ m[j][i] > 1 /\ m[j][i2] = 1

\* C4: in TESTING mode a project_into call leaves every connectome weight of the Brain
\* as it was, for every target and every choice of sources.
C4_TestingKeepsWeights ==
    [][(call'.op = "project_into" /\ learning_mode = TESTING) =>
        UNCHANGED <<stimuli_connectomes, connectomes, output_connectomes,
                    output_stimuli_connectomes>>]_vars

\* A TESTING call with sources, made after an earlier call has strengthened a synapse
\* into its target.
C4_Witness ==
    /\ Projected /\ learning_mode = TESTING
    /\ \E a \in call.from_areas : \E x \in Entries(AreaConn(a, call.target)) : x > 1
    /\ \E s \in call.from_stimuli : \E x \in Entries(StimConn(s, call.target)) : x > 1

\* C5: a projection step on a target (project_into, then the update of its winners) adds
\* to support_size the number of new winners whose support bit was unset before the
\* step; so outside a round support_size is the number of set bits of support, it never
\* decreases and never exceeds n.
C5_SupportSize ==
    [][\A t \in DOMAIN areas \cup DOMAIN output_areas :
        LET before == TargetNow(t)
            after == TargetNext(t)
        IN  /\ (call'.op = "project_into" /\ call'.ok /\ call'.target = t) =>
                    after.new_support_size = before.support_size +
                        Cardinality({w \in Range(after.new_winners) : before.support[w] = 0})
            /\ (call'.op = "update_winners" /\ t \in to_update) =>
                    after.support_size = before.new_support_size
            /\ after.support_size >= before.support_size
            /\ t \notin to_update' =>
                    /\ after.support_size = PopCount(after.support)
                    /\ after.support_size <= after.n]_vars

\* A target whose second step added a first-time winner to a support that the first
\* step had begun.
C5_Witness ==
    /\ call.op = "update_winners"
    /\ \E t \in DOMAIN areas :
        /\ areas[t].k < areas[t].n
        /\ areas[t].support_size > areas[t].k
        /\ areas[t].support_size = PopCount(areas[t].support)

\* C6: project_into returns the number of distinct new winners of the target whose
\* support bit was unset before the call; over the calls on one target every neuron is
\* counted once, so the returned values sum to the number of set support bits, and a
\* call whose new winners are all in support already returns 0.
C6_ReturnsFirstWinners ==
    [][/\ (call'.op = "project_into" /\ call'.ok) =>
            LET t == call'.target
                new == Range(TargetNext(t).new_winners)
                fresh == {w \in new : TargetNow(t).support[w] = 0}
            IN  /\ call'.ret = Cardinality(fresh)
                /\ (fresh = {}) => call'.ret = 0
       /\ \A t \in DOMAIN areas' \cup DOMAIN output_areas' :
            (IF t \in DOMAIN returned' THEN returned'[t] ELSE 0)
                = PopCount(TargetNext(t).support)]_vars

\* The second call on a target returns 0 after the first one returned a positive count.
C6_Witness ==
    /\ Projected
    /\ call.ret = 0
    /\ TargetNow(call.target).new_winners # << >>
    /\ call.target \in DOMAIN returned
    /\ returned[call.target] > 0

\* C7: in TRAINING mode the new winners of an output area are its desired_output
\* whatever the inputs are, and the new winners of a regular area are the top k by
\* input.
C7_TrainingClamp ==
    (Projected /\ learning_mode = TRAINING) =>
        LET area == TargetNow(call.target)
        IN  IF call.target \in DOMAIN output_areas
            THEN area.new_winners = area.desired_output
            ELSE IsTopK(area.new_winners, call.inputs, area.k, area.n)

\* A TRAINING call on an output area whose label is a neuron with strictly less input
\* than another one.
C7_Witness ==
    /\ Projected /\ Clamped
    /\ LET area == TargetNow(call.target)
       IN  /\ Len(area.desired_output) = 1
           /\ area.new_winners = area.desired_output
           /\ \E y \in DOMAIN call.inputs :
                call.inputs[y] > call.inputs[area.desired_output[1]]

\* C8: after any sequence of creation calls every entry of every stimulus -> output-area
\* connectome is 0, whether the stimulus was created before or after the output area.
C8_StimulusToOutputZero ==
    \A s \in DOMAIN stimuli, o \in DOMAIN output_areas :
        /\ (s \in DOMAIN output_stimuli_connectomes /\ o \in DOMAIN output_stimuli_connectomes[s])
                => Entries(output_stimuli_connectomes[s][o]) \subseteq {0}
        /\ (s \in DOMAIN stimuli_connectomes /\ o \in DOMAIN stimuli_connectomes[s])
                => Entries(stimuli_connectomes[s][o]) \subseteq {0}

\* C9: after any sequence of creation calls every entry of every area -> output-area
\* connectome is 1, whether the area was created before or after the output area.
C9_AreaToOutputOne ==
    \A a \in DOMAIN areas, o \in DOMAIN output_areas :
        (a \in DOMAIN output_connectomes /\ o \in DOMAIN output_connectomes[a])
            => Entries(output_connectomes[a][o]) \subseteq {1}

\* C10: after any sequence of creation calls with fresh names a connectome of shape
\* (source size, target n) exists for every (stimulus, area) pair, every ordered
\* (area, area) pair, every (area, output-area) pair and every (stimulus, output-area)
\* pair, and the entries of stimulus -> area and area -> area connectomes are 0 or 1.
C10_ConnectomesExist ==
    /\ \A s \in DOMAIN stimuli, a \in DOMAIN areas :
        /\ s \in DOMAIN stimuli_connectomes /\ a \in DOMAIN stimuli_connectomes[s]
        /\ IsMatrix(stimuli_connectomes[s][a], stimuli[s].k, areas[a].n)
        /\ Entries(stimuli_connectomes[s][a]) \subseteq {0, 1}
    /\ \A a \in DOMAIN areas, c \in DOMAIN areas :
        /\ a \in DOMAIN connectomes /\ c \in DOMAIN connectomes[a]
        /\ IsMatrix(connectomes[a][c], areas[a].n, areas[c].n)
        /\ Entries(connectomes[a][c]) \subseteq {0, 1}
    /\ \A a \in DOMAIN areas, o \in DOMAIN output_areas :
        /\ a \in DOMAIN output_connectomes /\ o \in DOMAIN output_connectomes[a]
        /\ IsMatrix(output_connectomes[a][o], areas[a].n, output_areas[o].n)
    /\ \A s \in DOMAIN stimuli, o \in DOMAIN output_areas :
        /\ s \in DOMAIN output_stimuli_connectomes /\ o \in DOMAIN output_stimuli_connectomes[s]
        /\ IsMatrix(output_stimuli_connectomes[s][o], stimuli[s].k, output_areas[o].n)

\* Every entry of the two-level dict d is in e with the same value.
KeepsEntries(d, e) ==
    \A x \in DOMAIN d : \A y \in DOMAIN d[x] :
        x \in DOMAIN e /\ y \in DOMAIN e[x] /\ e[x][y] = d[x][y]

\* Every stimulus_beta and area_beta entry of the populations of d is in e unchanged.
KeepsBetas(d, e) ==
    \A t \in DOMAIN d :
        /\ t \in DOMAIN e
        /\ \A s \in DOMAIN d[t].stimulus_beta :
                s \in DOMAIN e[t].stimulus_beta /\ e[t].stimulus_beta[s] = d[t].stimulus_beta[s]
        /\ \A a \in DOMAIN d[t].area_beta :
                a \in DOMAIN e[t].area_beta /\ e[t].area_beta[a] = d[t].area_beta[a]

Creations == {"add_stimulus", "add_area", "add_output_area"}

C12_NamesDisjoint ==
    /\ DOMAIN stimuli \cap DOMAIN areas = {}
    /\ DOMAIN stimuli \cap DOMAIN output_areas = {}
    /\ DOMAIN areas \cap DOMAIN output_areas = {}

\* The names of the populations of the Brain.
Registry == DOMAIN stimuli \cup DOMAIN areas \cup DOMAIN output_areas

\* C13: a project_into call that names a stimulus or a source area that is not in the
\* registry fails, and every connectome weight is as it was before the call, wherever
\* the unknown name stands among the sources and whatever known sources are named with
\* it.
C13_UnknownSourceFails ==
    [][(call'.op = "project_into"
            /\ (call'.from_stimuli \cup call'.from_areas) \ Registry # {}) =>
        /\ ~call'.ok
        /\ UNCHANGED <<stimuli_connectomes, connectomes, output_connectomes,
                       output_stimuli_connectomes>>]_vars

\* A failed call that named the unknown area together with a stimulus and an area whose
\* connectomes into the target have synapses that a completed call would strengthen.
C13_Witness ==
    /\ call.op = "project_into" /\ ~call.ok
    /\ Unknown \in call.from_areas
    /\ \E s \in call.from_stimuli \cap DOMAIN stimuli :
            /\ inputs_defined(Brain, call.target, {s}, {})
            /\ \E x \in Entries(StimConn(s, call.target)) : x > 0
    /\ \E a \in call.from_areas \cap DOMAIN areas :
            /\ inputs_defined(Brain, call.target, {}, {a})
            /\ \E x \in Entries(AreaConn(a, call.target)) : x > 0

\* C14: add_area with k > n is rejected and leaves the Brain as it was, so every area of
\* the registry has k <= n.
C14_KAtMostN ==
    \A a \in DOMAIN areas : areas[a].k <= areas[a].n

\* The two-level dict e has the keys of d, and the value of every entry of d except
\* those from a named source into t.
KeepsExcept(d, e, t, named) ==
    /\ DOMAIN e = DOMAIN d
    /\ \A x \in DOMAIN d :
        /\ DOMAIN e[x] = DOMAIN d[x]
        /\ \A y \in DOMAIN d[x] : (y # t \/ x \notin named) => e[x][y] = d[x][y]

\* C15: a project_into call on target T changes only the new winners, the support and
\* the new support size of T and entries of the connectomes from the named sources into
\* T: every connectome that ends at another population or starts at a source that the
\* call does not name, every other population, every beta entry and the learning mode
\* are as before the call.
C15_ProjectIntoFrame ==
    [][(call'.op = "project_into" /\ call'.ok) =>
        LET t == call'.target
        IN  /\ learning_mode' = learning_mode
            /\ stimuli' = stimuli
            /\ DOMAIN areas' = DOMAIN areas /\ DOMAIN output_areas' = DOMAIN output_areas
            /\ \A p \in (DOMAIN areas \cup DOMAIN output_areas) \ {t} :
                    TargetNext(p) = TargetNow(p)
            /\ TargetNext(t) = [TargetNow(t) EXCEPT
                                    !.new_winners = TargetNext(t).new_winners,
                                    !.support = TargetNext(t).support,
                                    !.new_support_size = TargetNext(t).new_support_size]
            /\ KeepsExcept(stimuli_connectomes, stimuli_connectomes', t, call'.from_stimuli)
            /\ KeepsExcept(output_stimuli_connectomes, output_stimuli_connectomes', t,
                           call'.from_stimuli)
            /\ KeepsExcept(connectomes, connectomes', t, call'.from_areas)
            /\ KeepsExcept(output_connectomes, output_connectomes', t, call'.from_areas)]_vars

\* A call that strengthened a synapse from a named area into its target while an area
\* with winners that the call does not name has synapses into the target and synapses
\* from the target.
C15_Witness ==
    /\ Projected /\ learning_mode # TESTING
    /\ call.target \in DOMAIN areas
    /\ \E a \in call.from_areas : \E x \in Entries(AreaConn(a, call.target)) : x > 1
    /\ \E c \in DOMAIN areas \ (call.from_areas \cup {call.target}) :
        /\ areas[c].new_winners # << >>
        /\ 1 \in Entries(connectomes[c][call.target])
        /\ 1 \in Entries(connectomes[call.target][c])

\* C16: from the same Brain and with the same arguments, project_into in TESTING mode
\* gives the target the new winners, support and new support size, and returns the
\* value, that it gives in the default mode, and leaves the connectomes as they were;
\* project_into in TRAINING mode on an area that is no output area gives the post-state
\* and the return value of the default mode.
C16_ModesAgree ==
    [][(call'.op = "project_into" /\ call'.ok) =>
        LET t == call'.target
            d == project_into([Brain EXCEPT !.learning_mode = DEFAULT], t,
                              call'.from_stimuli, call'.from_areas)
        IN  /\ (learning_mode = TESTING) =>
                    /\ areas' = d.brain.areas
                    /\ output_areas' = d.brain.output_areas
                    /\ call'.ret = d.ret
                    /\ UNCHANGED <<stimuli_connectomes, connectomes, output_connectomes,
                                   output_stimuli_connectomes>>
            /\ (learning_mode = TRAINING /\ t \notin DOMAIN output_areas) =>
                    /\ BrainNext = [d.brain EXCEPT !.learning_mode = TRAINING]
                    /\ call'.ret = d.ret]_vars

\* A TRAINING call on a regular area that found first-time winners and strengthened a
\* synapse from a named area and one from a named stimulus.
C16_Witness ==
    /\ Projected /\ learning_mode = TRAINING
    /\ call.target \in DOMAIN areas
    /\ call.ret > 0
    /\ \E a \in call.from_areas : \E x \in Entries(AreaConn(a, call.target)) : x > 1
    /\ \E s \in call.from_stimuli : \E x \in Entries(StimConn(s, call.target)) : x > 1

\* The new winners that project_into on target t with the given sources selects in
\* Brain b.
WouldWin(b, t, from_stimuli, from_areas) ==
    select_winners(b, t, project_into_calculate_inputs(b, t, from_stimuli, from_areas))

\* C17: within a round the new winners of a target depend only on the winners that the
\* source areas had when the round started: a project_into call on an area T1 leaves
\* the new winners that project_into selects for every other target T2 of the round,
\* for every choice of sources of T2 with T1 among them (T2 a source of T1 or not), as
\* they are when T2 is projected into before T1.
C17_RoundOrder ==
    [][(call'.op = "project_into" /\ call'.ok) =>
        \A t2 \in (DOMAIN areas \cup DOMAIN output_areas) \ to_update' :
            \A fs \in SUBSET (DOMAIN stimuli),
               fa \in {x \in SUBSET (DOMAIN areas) : call'.target \in x} :
                inputs_defined(Brain, t2, fs, fa) =>
                    WouldWin(BrainNext, t2, fs, fa) = WouldWin(Brain, t2, fs, fa)]_vars

\* The second call of a round was made after a target with winners from an earlier
\* round got other new winners, and that target has synapses into an area that the
\* round has not projected into yet.
C17_Witness ==
    /\ Projected
    /\ \E t1 \in to_update \cap DOMAIN areas :
        /\ t1 = call.target
        /\ areas[t1].winners # << >>
        /\ Range(areas[t1].new_winners) # Range(areas[t1].winners)
        /\ \E t2 \in DOMAIN areas \ to_update :
                /\ {0, 1} \subseteq Entries(connectomes[t1][t2])
                /\ call.target \in DOMAIN areas[t2].area_beta

\* C18: in TESTING mode a project_into call that repeats the call before it, with the
\* same target and the same sources, selects the same new winners again; it also does
\* when the round ends in between, provided the target is none of its own sources (the
\* end of the round then changes the winners of no source).
C18_TestingIdempotent ==
    [][(call'.op = "project_into" /\ call'.ok /\ learning_mode = TESTING) =>
        LET t == call'.target
            fs == call'.from_stimuli
            fa == call'.from_areas
            first == TargetNext(t).new_winners
            ended == SetTarget(BrainNext, t, update_winners(TargetNext(t)))
        IN  /\ WouldWin(BrainNext, t, fs, fa) = first
            /\ (t \notin fa) => WouldWin(ended, t, fs, fa) = first]_vars

\* A TESTING call on an area that is one of its own sources and has winners from an
\* earlier round, whose inputs are not all equal and whose new winners are not the
\* winners it had.
C18_Witness ==
    /\ Projected /\ learning_mode = TESTING
    /\ call.target \in call.from_areas
    /\ LET area == TargetNow(call.target)
       IN  /\ area.winners # << >>
           /\ Range(area.new_winners) # Range(area.winners)
           /\ \E x, y \in DOMAIN call.inputs : call.inputs[x] > call.inputs[y]

\* The synapses that fire into neuron i of target t: <<source, j>> for every winner j of
\* a named area and for every neuron j of a named stimulus.
FiringAreaSynapses(fa) == UNION {{<<a, j>> : j \in Range(areas[a].winners)} : a \in fa}

FiringStimulusSynapses(fs) == UNION {{<<s, j>> : j \in 0..(stimuli[s].k - 1)} : s \in fs}

\* C19: the input that project_into computes for neuron i of the target is the sum of
\* entry (j, i) of the area -> target connectome over every named source area and every
\* winner j of it, plus the sum of entry (j, i) of the stimulus -> target connectome over
\* every named stimulus and every one of its k neurons j; a neuron of a source area that
\* is no winner adds nothing.
C19_InputIsSum ==
    [][(call'.op = "project_into" /\ call'.ok) =>
        LET t == call'.target
            fromA == FiringAreaSynapses(call'.from_areas)
            fromS == FiringStimulusSynapses(call'.from_stimuli)
        IN  /\ DOMAIN call'.inputs = 0..(TargetNow(t).n - 1)
            /\ \A i \in DOMAIN call'.inputs :
                call'.inputs[i] =
                    SumOver([x \in fromA |-> AreaConn(x[1], t)[x[2]][i]], fromA)
                    + SumOver([x \in fromS |-> StimConn(x[1], t)[x[2]][i]], fromS)]_vars

\* A call with a stimulus and with an area that has winners and a neuron that is no
\* winner, this neuron having a synapse of positive weight into a neuron of the target
\* that gets positive input.
C19_Witness ==
    /\ Projected
    /\ call.from_stimuli # {}
    /\ \E a \in call.from_areas :
        /\ areas[a].winners # << >>
        /\ \E j \in (0..(areas[a].n - 1)) \ Range(areas[a].winners) :
            \E i \in DOMAIN call.inputs :
                AreaConn(a, call.target)[j][i] > 0 /\ call.inputs[i] > 0

\* C20: after any sequence of creation calls every area and output area holds a
\* stimulus_beta entry for every stimulus and an area_beta entry for every area, each
\* equal to the beta of the population that holds it, the target, whatever the beta of
\* the source; and it is the coefficient of project_into: a projection from one source
\* multiplies the strengthened entries of the connectome by 1 + the target's beta.
C20_BetasOfTarget ==
    \A t \in DOMAIN areas \cup DOMAIN output_areas :
        LET target == TargetNow(t)
        IN  /\ \A s \in DOMAIN stimuli :
                    s \in DOMAIN target.stimulus_beta /\ target.stimulus_beta[s] = target.beta
            /\ \A a \in DOMAIN areas :
                    a \in DOMAIN target.area_beta /\ target.area_beta[a] = target.beta
            /\ \A s \in DOMAIN stimuli :
                    inputs_defined(Brain, t, {s}, {}) =>
                        LET r == project_into(Brain, t, {s}, {})
                            new == Range(Target(r.brain, t).new_winners)
                            m == StimConn(s, t)
                            after == get_stimulus_connectomes(r.brain, s, t)
                        IN  \A j \in DOMAIN m : \A i \in DOMAIN m[j] :
                                after[j][i] = IF i \in new THEN m[j][i] * (1 + target.beta)
                                              ELSE m[j][i]
            /\ \A a \in DOMAIN areas :
                    inputs_defined(Brain, t, {}, {a}) =>
                        LET r == project_into(Brain, t, {}, {a})
                            new == Range(Target(r.brain, t).new_winners)
                            rows == Range(r.brain.areas[a].new_winners)
                            m == AreaConn(a, t)
                            after == get_area_connectomes(r.brain, a, t)
                        IN  \A j \in DOMAIN m : \A i \in DOMAIN m[j] :
                                after[j][i] = IF j \in rows /\ i \in new
                                              THEN m[j][i] * (1 + target.beta)
                                              ELSE m[j][i]

\* A brain with a stimulus, an output area and two areas of different beta, each area
\* holding an entry for the other.
C20_Witness ==
    /\ DOMAIN stimuli # {} /\ DOMAIN output_areas # {}
    /\ \E a, c \in DOMAIN areas :
        /\ areas[a].beta # areas[c].beta
        /\ c \in DOMAIN areas[a].area_beta /\ a \in DOMAIN areas[c].area_beta
        /\ \E o \in DOMAIN output_areas : output_areas[o].beta # areas[a].beta

\* C21: reading accuracy raises ModelNotTested exactly when no test_model call has run
\* to completion; once one has, on a test set that is not empty, the read returns the
\* saved ratio successful_runs / total_runs rounded to 2 decimals, for every outcome of
\* the test, the one where no run matched included.
C21_AccuracyAfterTest ==
    (call.op = "accuracy") =>
        /\ call.ok <=> learning_model.tested
        /\ call.ok => call.ret = learning_model.saved_accuracy

====
